---- MODULE Spec2Model ----
(***************************************************************************)
(* Doctor-Rec: the recommendation pipeline of the two front-ends.          *)
(*   "web"       : src/web/app.py  (Flask, POST /predict)                   *)
(*   "streamlit" : src/app.py      (Streamlit page, "Find a Doctor" button) *)
(* One process serves requests one after another.  A request walks through *)
(* validation, feature encoding, classifier invocation, specialty          *)
(* resolution, the place search and one detail fetch per capped candidate. *)
(* The classifier and the place provider are external: each of their calls *)
(* is a step whose outcome (a value or an exception) is chosen freely.     *)
(***************************************************************************)
EXTENDS Integers, Sequences, FiniteSets, TLC

VARIABLES
    frontend,         \* "web" | "streamlit": which program this process runs
    model,            \* TRUE iff joblib.load succeeded (model is not None)
    gmaps,            \* TRUE iff googlemaps.Client(...) succeeded
    symptoms,         \* the vocabulary: sequence of column names
    pc,               \* position of the handler
    user_symptoms,    \* the request's symptom list
    user_location,    \* the request's location string
    model_input,      \* the encoded input: sequence of [symptom, value]
    prediction,       \* disease label, "None" before the classifier returned
    specialist,       \* specialist, "None" before resolution
    places_result,    \* the provider's 'results' list (place ids, ranked)
    doctors_list,     \* the capped candidates, with attached details (streamlit)
    doctors_details,  \* web: the list of doctor entries built by the loop
    map_data_list,    \* streamlit: the list of map points built by the loop
    response,         \* what the caller receives / what the page shows
    classifier_calls, \* model.predict invocations in this request
    search_calls,     \* gmaps.places invocations in this request
    detail_calls,     \* gmaps.place invocations in this request
    failure           \* outcome log of the external calls of this request

vars == <<frontend, model, gmaps, symptoms, pc, user_symptoms, user_location,
          model_input, prediction, specialist, places_result, doctors_list,
          doctors_details, map_data_list, response, classifier_calls,
          search_calls, detail_calls, failure>>

-----------------------------------------------------------------------------
(* Bounds of the model *)

\* longest header row of Training.csv that is tried
MaxCols == 3
\* longest symptom list of a request
MaxReq == 2
\* most candidates the provider returns for a search
MaxResults == 6

-----------------------------------------------------------------------------
(* Input domains *)

ColumnNames == {"itching", "skin_rash", "prognosis", "Unnamed: 133"}

RequestSymptoms == {"itching", "skin_rash", "stale_symptom"}

Locations == {"", "New Delhi"}

\* labels the opaque classifier may return; "Diabetes " is no key of the map
Labels == {"Migraine", "Fungal infection", "Malaria", "Diabetes "}

\* answers of one gmaps.place call: a result with every field, or a response
\* without 'result'
DetailAnswers == {"full", "bare"}

\* exceptions of one gmaps.place call: a timeout, or a denied key / spent quota
DetailErrors == {"transient", "auth"}

NoDupSeqs(S, n) ==
    {s \in UNION {[1..k -> S] : k \in 0..n} :
        \A i, j \in DOMAIN s : i # j => s[i] # s[j]}

Seqs(S, n) == UNION {[1..k -> S] : k \in 0..n}

Range(s) == {s[i] : i \in DOMAIN s}

Min(a, b) == IF a <= b THEN a ELSE b

-----------------------------------------------------------------------------
(* Startup: symptom vocabulary *)

IsUnnamed(col) == col \in {"Unnamed: 133"}

\* [col for col in all_cols if col != 'prognosis' and not col.startswith('Unnamed:')]
\* and [] when reading Training.csv raised
KeepColumn(col) == col # "prognosis" /\ ~IsUnnamed(col)

get_symptoms_list(csv_ok, all_cols) ==
    IF csv_ok THEN SelectSeq(all_cols, KeepColumn) ELSE <<>>

-----------------------------------------------------------------------------
(* Feature encoding *)

\* {symptom: 0 for symptom in symptoms}
ZeroInput(vocabulary) ==
    [i \in 1..Len(vocabulary) |-> [symptom |-> vocabulary[i], value |-> 0]]

Keys(mi) == {mi[i].symptom : i \in DOMAIN mi}

\* model_input[symptom] = 1 on a dict: overwrite the key's value in place,
\* or add the key at the end when the dict does not hold it
DictSet(mi, symptom) ==
    IF symptom \in Keys(mi)
        THEN [i \in DOMAIN mi |->
                IF mi[i].symptom = symptom
                    THEN [symptom |-> symptom, value |-> 1] ELSE mi[i]]
        ELSE Append(mi, [symptom |-> symptom, value |-> 1])

\* a plausible slip: the membership guard is dropped
MarkSymptomUnguarded(mi, symptom) == DictSet(mi, symptom)

\* if symptom in model_input: model_input[symptom] = 1
MarkSymptom(mi, symptom) ==
    IF symptom \in Keys(mi) THEN DictSet(mi, symptom) ELSE mi

RECURSIVE MarkAll(_, _)
MarkAll(mi, requested) ==
    IF requested = <<>> THEN mi
    ELSE MarkAll(MarkSymptom(mi, Head(requested)), Tail(requested))

encode(requested, vocabulary) == MarkAll(ZeroInput(vocabulary), requested)

-----------------------------------------------------------------------------
(* Specialty resolution *)

MapKeys ==
    {"Fungal infection", "Allergy", "GERD", "Acne", "Pneumonia", "Jaundice",
     "Migraine", "Hypertension ", "Heart attack",
     "Paralysis (brain hemorrhage)", "Chicken pox", "Malaria", "Dengue",
     "Typhoid"}

specialty_map_web ==
    [d \in MapKeys |->
        CASE d \in {"Fungal infection", "Acne", "Chicken pox"} -> "Dermatologist"
          [] d = "Allergy" -> "Allergist"
          [] d \in {"GERD", "Jaundice"} -> "Gastroenterologist"
          [] d = "Pneumonia" -> "Pulmonologist"
          [] d \in {"Migraine", "Paralysis (brain hemorrhage)"} -> "Neurologist"
          [] d \in {"Hypertension ", "Heart attack"} -> "Cardiologist"
          [] OTHER -> "General Practitioner"]

specialty_map_streamlit ==
    [d \in MapKeys |->
        CASE d \in {"Fungal infection", "Acne", "Chicken pox"} -> "Dermatologist"
          [] d = "Allergy" -> "Allergist"
          [] d \in {"GERD", "Jaundice"} -> "Gastroenterologist"
          [] d = "Pneumonia" -> "Pulmonologist"
          [] d \in {"Migraine", "Paralysis (brain hemorrhage)"} -> "Neurologist"
          [] d \in {"Hypertension ", "Heart attack"} -> "Cardiologist"
          [] OTHER -> "General Practitioner"]

\* a plausible slip: the lookup without a default
resolve_no_default(fe, label) ==
    IF label \in MapKeys THEN specialty_map_web[label] ELSE "None"

\* specialty_map.get(prediction, 'General Practitioner')
resolve(fe, label) ==
    LET m == IF fe = "web" THEN specialty_map_web ELSE specialty_map_streamlit
    IN  IF label \in DOMAIN m THEN m[label] ELSE "General Practitioner"

-----------------------------------------------------------------------------
(* Place search and detail enrichment *)

\* places_result.get('results', [])[:5]
TopN == 5

DetailFields ==
    {"name", "formatted_address", "international_phone_number", "website",
     "rating", "opening_hours", "geometry"}

\* place_details.get('result', {}): the fields the provider's answer holds
ResultOf(outcome) == IF outcome = "full" THEN DetailFields ELSE {}

\* details.get(field, default); the value of a field of place p is <<field, p>>
Get(details, p, field, default) ==
    IF field \in details THEN <<field, p>> ELSE default

OpenNowStatus(details) ==
    IF "opening_hours" \in details THEN "Open now" ELSE "Status unknown"

\* results[:5]
Cap(results) == SubSeq(results, 1, Min(TopN, Len(results)))

\* the capped candidates as the loop sees them: no 'details' key yet
Candidates(results) ==
    [i \in 1..Len(Cap(results)) |->
        [place_id |-> Cap(results)[i], has_details |-> FALSE, details |-> {}]]

\* web: the dict appended to doctors_details (lines 106-115)
WebDoctorEntry(details, p) ==
    [name |-> Get(details, p, "name", <<"N/A">>),
     address |-> Get(details, p, "formatted_address", <<"Address not available">>),
     phone |-> Get(details, p, "international_phone_number", <<"Phone not available">>),
     website |-> Get(details, p, "website", <<"None">>),
     rating |-> Get(details, p, "rating", <<"N/A">>),
     open_now_status |-> OpenNowStatus(details),
     place_id |-> p,
     location |-> Get(details, p, "geometry", <<>>)]

\* streamlit: the card drawn for one doctor (lines 188-217)
StreamlitCard(doctor) ==
    LET details == IF doctor.has_details THEN doctor.details ELSE {}
        p == doctor.place_id
    IN  [name |-> Get(details, p, "name", <<"N/A">>),
         address |-> Get(details, p, "formatted_address", <<"Address not available">>),
         phone |-> Get(details, p, "international_phone_number", <<"Phone not available">>),
         website |-> Get(details, p, "website", <<"None">>),
         rating |-> Get(details, p, "rating", <<"N/A">>),
         open_now_status |-> OpenNowStatus(details),
         place_id |-> p]

\* streamlit: the map point of one doctor (lines 165-168)
MapPoint(details, p) ==
    [name |-> Get(details, p, "name", <<"N/A">>), place_id |-> p]

\* a plausible slip: new entries are put in front of the list
PutFirst(list, entry) == <<entry>> \o list

\* doctors_details.append(...)
AppendDoctor(list, entry) == Append(list, entry)

-----------------------------------------------------------------------------
(* Responses *)

NoResponse ==
    [status |-> "none", error |-> "None", fields |-> {},
     predicted_disease |-> "None", specialist |-> "None",
     doctors |-> <<>>, map_points |-> <<>>]

\* web: jsonify({"error": msg}), code
WebError(code, msg) ==
    [NoResponse EXCEPT !.status = code, !.error = msg, !.fields = {"error"}]

\* web: the JSON of lines 118-122
WebSuccess(pred, spec, details_list) ==
    [status |-> "200", error |-> "None",
     fields |-> {"predicted_disease", "specialist", "doctors"},
     predicted_disease |-> pred, specialist |-> spec,
     doctors |-> details_list, map_points |-> <<>>]

\* streamlit: st.warning(msg) of the input checks, nothing else shown
StreamlitWarning(msg) ==
    [NoResponse EXCEPT !.status = "warning", !.error = msg, !.fields = {"warning"}]

\* streamlit: st.error(msg) of the startup guard's else branches
StreamlitStartupError(msg) ==
    [NoResponse EXCEPT !.status = "startup_error", !.error = msg, !.fields = {"error"}]

\* streamlit: the page after the st.status block: the status and the error
\* (if any) of the block, then the results display of lines 177-224
StreamlitPage(state, err, pred, spec, dl, mdl) ==
    LET shown == pred # "None" /\ spec # "None"
        cards == [i \in 1..Len(dl) |-> StreamlitCard(dl[i])]
    IN  [status |-> state, error |-> err,
         fields |-> (IF err # "None" THEN {"error"} ELSE {})
                    \cup (IF shown THEN {"predicted_disease", "specialist"} ELSE {})
                    \cup (IF shown /\ dl = <<>> THEN {"no_results"} ELSE {})
                    \cup (IF shown /\ dl # <<>> THEN {"doctors"} ELSE {})
                    \cup (IF shown /\ dl # <<>> /\ mdl # <<>> THEN {"map_points"} ELSE {}),
         predicted_disease |-> IF shown THEN pred ELSE "None",
         specialist |-> IF shown THEN spec ELSE "None",
         doctors |-> IF shown THEN cards ELSE <<>>,
         map_points |-> IF shown /\ dl # <<>> THEN mdl ELSE <<>>]

\* the except block of the handler: what the caller gets when a stage raised
OnException(fe, pred, spec, dl, mdl) ==
    IF fe = "web" THEN WebError("500", "str(e)")
    ELSE StreamlitPage("error", "An error occurred", pred, spec, dl, mdl)

NoFailure == [stage |-> "none", class |-> "none", index |-> 0]

-----------------------------------------------------------------------------
(* Initial state: the process after its startup code ran *)

Init ==
    /\ frontend \in {"web", "streamlit"}
    /\ model \in BOOLEAN
    /\ gmaps \in BOOLEAN
    /\ \E csv_ok \in BOOLEAN, all_cols \in NoDupSeqs(ColumnNames, MaxCols) :
          symptoms = get_symptoms_list(csv_ok, all_cols)
    /\ pc = "ready"
    /\ user_symptoms = <<>>
    /\ user_location = ""
    /\ model_input = <<>>
    /\ prediction = "None"
    /\ specialist = "None"
    /\ places_result = <<>>
    /\ doctors_list = <<>>
    /\ doctors_details = <<>>
    /\ map_data_list = <<>>
    /\ response = NoResponse
    /\ classifier_calls = 0
    /\ search_calls = 0
    /\ detail_calls = 0
    /\ failure = NoFailure

\* a request starts from fresh locals
FreshRequest(us, loc) ==
    /\ user_symptoms' = us
    /\ user_location' = loc
    /\ model_input' = <<>>
    /\ prediction' = "None"
    /\ specialist' = "None"
    /\ places_result' = <<>>
    /\ doctors_list' = <<>>
    /\ doctors_details' = <<>>
    /\ map_data_list' = <<>>
    /\ classifier_calls' = 0
    /\ search_calls' = 0
    /\ detail_calls' = 0
    /\ failure' = NoFailure
    /\ UNCHANGED <<frontend, model, gmaps, symptoms>>

-----------------------------------------------------------------------------
(* Request entry *)

\* predict's guard: if not model or not gmaps
WebConfigured == model /\ gmaps

\* POST /predict, up to the first external call (lines 64-73)
predict ==
    /\ frontend = "web"
    /\ pc = "ready"
    /\ \E us \in Seqs(RequestSymptoms, MaxReq), loc \in Locations :
          /\ FreshRequest(us, loc)
          /\ IF ~WebConfigured
                THEN /\ response' = WebError("500", "Backend server is not configured correctly.")
                     /\ pc' = "done"
             ELSE IF us = <<>> \/ loc = ""
                THEN /\ response' = WebError("400", "Missing symptoms or location.")
                     /\ pc' = "done"
             ELSE /\ response' = NoResponse
                  /\ pc' = "encode"

\* the page's guard: if model and symptoms and gmaps
StreamlitStarted == model /\ symptoms # <<>> /\ gmaps

\* the page when the guard fails (lines 229-232): no button, only an error
streamlit_not_started ==
    /\ frontend = "streamlit"
    /\ pc = "ready"
    /\ ~StreamlitStarted
    /\ FreshRequest(<<>>, "")
    /\ response' =
          IF ~(model /\ symptoms # <<>>)
            THEN StreamlitStartupError("Application could not be started.")
            ELSE StreamlitStartupError("Google Maps Client could not be initialized.")
    /\ pc' = "done"

\* a click on "Find a Doctor", up to the first external call (lines 105-118);
\* the multiselect offers the vocabulary only
find_doctor_button ==
    /\ frontend = "streamlit"
    /\ pc = "ready"
    /\ StreamlitStarted
    /\ \E us \in NoDupSeqs(Range(symptoms), MaxReq), loc \in Locations :
          /\ FreshRequest(us, loc)
          /\ IF us = <<>>
                THEN /\ response' = StreamlitWarning("Please select at least one symptom.")
                     /\ pc' = "done"
             ELSE IF loc = ""
                THEN /\ response' = StreamlitWarning("Please enter your location.")
                     /\ pc' = "done"
             ELSE /\ response' = NoResponse
                  /\ pc' = "encode"

-----------------------------------------------------------------------------
(* Pipeline stages *)

\* model_input = {...}; for symptom in user_symptoms: ...
build_model_input ==
    /\ pc = "encode"
    /\ model_input' = encode(user_symptoms, symptoms)
    /\ pc' = "classify"
    /\ UNCHANGED <<frontend, model, gmaps, symptoms, user_symptoms, user_location,
                   prediction, specialist, places_result, doctors_list,
                   doctors_details, map_data_list, response, classifier_calls,
                   search_calls, detail_calls, failure>>

\* prediction = model.predict(input_df)[0]: the classifier answers a label
model_predict ==
    /\ pc = "classify"
    /\ classifier_calls' = classifier_calls + 1
    /\ \E label \in Labels : prediction' = label
    /\ pc' = "resolve"
    /\ UNCHANGED <<frontend, model, gmaps, symptoms, user_symptoms, user_location,
                   model_input, specialist, places_result, doctors_list,
                   doctors_details, map_data_list, response, search_calls,
                   detail_calls, failure>>

\* model.predict raises (e.g. the frame's columns do not fit the model)
model_predict_raises ==
    /\ pc = "classify"
    /\ classifier_calls' = classifier_calls + 1
    /\ failure' = [stage |-> "classifier", class |-> "exception", index |-> 0]
    /\ response' = OnException(frontend, prediction, specialist, doctors_list, map_data_list)
    /\ pc' = "done"
    /\ UNCHANGED <<frontend, model, gmaps, symptoms, user_symptoms, user_location,
                   model_input, prediction, specialist, places_result, doctors_list,
                   doctors_details, map_data_list, search_calls, detail_calls>>

\* specialist = specialty_map.get(prediction, 'General Practitioner')
resolve_specialist ==
    /\ pc = "resolve"
    /\ specialist' = resolve(frontend, prediction)
    /\ pc' = "search"
    /\ UNCHANGED <<frontend, model, gmaps, symptoms, user_symptoms, user_location,
                   model_input, prediction, places_result, doctors_list,
                   doctors_details, map_data_list, response, classifier_calls,
                   search_calls, detail_calls, failure>>

\* the ranked answers the provider may give: n places, in one of two orders
ProviderResults ==
    {[i \in 1..n |-> IF rev THEN n + 1 - i ELSE i] :
        n \in 0..MaxResults, rev \in BOOLEAN}

\* places_result = gmaps.places(...); doctors_list = ...[:5]
gmaps_places ==
    /\ pc = "search"
    /\ search_calls' = search_calls + 1
    /\ \E results \in ProviderResults :
          /\ places_result' = results
          /\ doctors_list' = Candidates(results)
    /\ pc' = "details"
    /\ UNCHANGED <<frontend, model, gmaps, symptoms, user_symptoms, user_location,
                   model_input, prediction, specialist, doctors_details,
                   map_data_list, response, classifier_calls, detail_calls, failure>>

\* gmaps.places raises (network, quota, authentication)
gmaps_places_raises ==
    /\ pc = "search"
    /\ search_calls' = search_calls + 1
    /\ failure' = [stage |-> "search", class |-> "exception", index |-> 0]
    /\ response' = OnException(frontend, prediction, specialist, doctors_list, map_data_list)
    /\ pc' = "done"
    /\ UNCHANGED <<frontend, model, gmaps, symptoms, user_symptoms, user_location,
                   model_input, prediction, specialist, places_result, doctors_list,
                   doctors_details, map_data_list, classifier_calls, detail_calls>>

\* one pass of the loop "for doctor in doctors_list" whose gmaps.place answers
gmaps_place ==
    /\ pc = "details"
    /\ detail_calls < Len(doctors_list)
    /\ detail_calls' = detail_calls + 1
    /\ \E outcome \in DetailAnswers :
          LET i == detail_calls + 1
              p == doctors_list[i].place_id
              details == ResultOf(outcome)
          IN  IF frontend = "web"
                THEN /\ doctors_details' = AppendDoctor(doctors_details, WebDoctorEntry(details, p))
                     /\ UNCHANGED <<doctors_list, map_data_list>>
                ELSE /\ doctors_list' = [doctors_list EXCEPT ![i] =
                            [place_id |-> p, has_details |-> TRUE, details |-> details]]
                     /\ map_data_list' =
                            IF "geometry" \in details
                                THEN Append(map_data_list, MapPoint(details, p))
                                ELSE map_data_list
                     /\ UNCHANGED doctors_details
    /\ UNCHANGED <<frontend, model, gmaps, symptoms, pc, user_symptoms, user_location,
                   model_input, prediction, specialist, places_result, response,
                   classifier_calls, search_calls, failure>>

\* one pass of the loop whose gmaps.place raises: the handler's except block
gmaps_place_raises ==
    /\ pc = "details"
    /\ detail_calls < Len(doctors_list)
    /\ detail_calls' = detail_calls + 1
    /\ \E class \in DetailErrors :
          failure' = [stage |-> "detail", class |-> class, index |-> detail_calls + 1]
    /\ response' = OnException(frontend, prediction, specialist, doctors_list, map_data_list)
    /\ pc' = "done"
    /\ UNCHANGED <<frontend, model, gmaps, symptoms, user_symptoms, user_location,
                   model_input, prediction, specialist, places_result, doctors_list,
                   doctors_details, map_data_list, classifier_calls, search_calls>>

\* the loop is over: the JSON (web), or status "complete" and the display
respond ==
    /\ pc = "details"
    /\ detail_calls = Len(doctors_list)
    /\ response' =
          IF frontend = "web"
            THEN WebSuccess(prediction, specialist, doctors_details)
            ELSE StreamlitPage("complete", "None", prediction, specialist,
                               doctors_list, map_data_list)
    /\ pc' = "done"
    /\ UNCHANGED <<frontend, model, gmaps, symptoms, user_symptoms, user_location,
                   model_input, prediction, specialist, places_result, doctors_list,
                   doctors_details, map_data_list, classifier_calls, search_calls,
                   detail_calls, failure>>

\* the handler returned: the process waits for the next request
next_request ==
    /\ pc = "done"
    /\ FreshRequest(<<>>, "")
    /\ response' = NoResponse
    /\ pc' = "ready"

Next ==
    \/ predict
    \/ streamlit_not_started
    \/ find_doctor_button
    \/ build_model_input
    \/ model_predict
    \/ model_predict_raises
    \/ resolve_specialist
    \/ gmaps_places
    \/ gmaps_places_raises
    \/ gmaps_place
    \/ gmaps_place_raises
    \/ respond
    \/ next_request

Spec == Init /\ [][Next]_vars

-----------------------------------------------------------------------------
(* Vocabulary of the properties *)

\* the request got past the input checks and its input was encoded
Encoded ==
    \/ pc \in {"classify", "resolve", "search", "details"}
    \/ pc = "done" /\ classifier_calls > 0

\* the specialist of the request has been resolved
Resolved ==
    \/ pc \in {"search", "details"}
    \/ pc = "done" /\ search_calls > 0

\* startup loaded the model, the vocabulary and the provider's client, so
\* the process serves requests
Serving == model /\ symptoms # <<>> /\ gmaps

\* the handler ended with a success status
Success(r) == r.status \in {"200", "complete"}

\* the caller is told that the request failed
IsError(r) == ~Success(r) /\ r.error # "None"

\* messages that name the missing location, and nothing else, as the fault
IsNoLocationError(r) ==
    /\ r.status \in {"400", "warning"}
    /\ r.error = "Please enter your location."

\* messages that name the missing symptoms, and nothing else, as the fault
IsNoSymptomsError(r) ==
    /\ r.status \in {"400", "warning"}
    /\ r.error = "Please select at least one symptom."

\* an entry of place p that carries no detail beyond the name
NameOnly(entry, p) ==
    /\ entry.place_id = p
    /\ entry.address = <<"Address not available">>
    /\ entry.phone = <<"Phone not available">>
    /\ entry.rating = <<"N/A">>
    /\ entry.open_now_status = "Status unknown"

-----------------------------------------------------------------------------
(* C1 *)

\* C1: once a request with at least one symptom is encoded, the encoded input
\* has exactly one entry per vocabulary symptom, in vocabulary order, and the
\* entry of symptom v is 1 iff v is among the requested symptoms; requested
\* symptoms outside the vocabulary add no entry.
C1_EncodingMatchesVocabulary ==
    (Encoded /\ Len(user_symptoms) >= 1) =>
        /\ Len(model_input) = Len(symptoms)
        /\ \A i \in 1..Len(symptoms) :
              /\ model_input[i].symptom = symptoms[i]
              /\ model_input[i].value \in {0, 1}
              /\ model_input[i].value = 1 <=> symptoms[i] \in Range(user_symptoms)

\* an encoded request that names a symptom outside the vocabulary, with a
\* 1-entry and a 0-entry in the encoded input
C1_Witness ==
    /\ Encoded
    /\ Range(user_symptoms) \ Range(symptoms) # {}
    /\ \E i, j \in DOMAIN model_input :
          model_input[i].value = 1 /\ model_input[j].value = 0

-----------------------------------------------------------------------------
(* C2 *)

\* C2: a request with an empty location ends with the caller-input error that
\* names the missing location, and issues no place search and no detail
\* fetch, whatever its symptom set is.
C2_EmptyLocationIsNoLocationError ==
    (pc = "done" /\ Serving /\ user_location = "") =>
        /\ IsNoLocationError(response)
        /\ search_calls = 0
        /\ detail_calls = 0

-----------------------------------------------------------------------------
(* C3 *)

\* C3: a request with an empty symptom set ends with the caller-input error
\* that names the missing symptoms (a kind distinct from the missing
\* location's), without any classifier or provider call.
C3_EmptySymptomsIsNoSymptomsError ==
    (pc = "done" /\ Serving /\ user_symptoms = <<>>) =>
        /\ IsNoSymptomsError(response)
        /\ ~IsNoLocationError(response)
        /\ classifier_calls = 0
        /\ search_calls = 0
        /\ detail_calls = 0

-----------------------------------------------------------------------------
(* C4 *)

\* C4: in every successful request the returned doctor list has as many
\* entries as the first min(5, n) of the provider's n results, and entry i
\* is the enrichment of result i: the provider's ranking is preserved.
C4_DoctorsFollowSearchOrder ==
    (pc = "done" /\ Success(response)) =>
        /\ Len(response.doctors) = Min(5, Len(places_result))
        /\ \A i \in 1..Len(response.doctors) :
              /\ response.doctors[i].place_id = places_result[i]
              /\ response.doctors[i].name
                    \in {<<"name", places_result[i]>>, <<"N/A">>}

\* a successful request whose search gave more than five results, ranked
\* against the order of their identifiers, with mixed detail answers
C4_Witness ==
    /\ pc = "done"
    /\ Success(response)
    /\ Len(places_result) > 5
    /\ places_result[1] > places_result[2]
    /\ Len(response.doctors) = 5
    /\ response.doctors[1].name = <<"N/A">>
    /\ response.doctors[2].name = <<"name", places_result[2]>>

-----------------------------------------------------------------------------
(* C5 *)

\* C5: when one detail fetch fails with a transient error, the request still
\* succeeds, the failing candidate stays in the doctor list with name-only
\* detail, and the other candidates keep what their fetches returned.
C5_TransientFetchFailureDegrades ==
    (pc = "done" /\ Serving /\ failure.stage = "detail"
                 /\ failure.class = "transient") =>
        /\ Success(response)
        /\ Len(response.doctors) = Len(doctors_list)
        /\ NameOnly(response.doctors[failure.index],
                    doctors_list[failure.index].place_id)
        /\ \A i \in 1..(failure.index - 1) :
              response.doctors[i].place_id = doctors_list[i].place_id

-----------------------------------------------------------------------------
(* C6 *)

\* C6: when the first detail fetch fails with an authentication/quota error,
\* the request fails, no further detail fetch is issued, and no doctor entry
\* is returned or shown, in either front-end.
C6_AuthFailureAbortsBatch ==
    (pc = "done" /\ Serving /\ failure.stage = "detail"
                 /\ failure.class = "auth" /\ failure.index = 1) =>
        /\ IsError(response)
        /\ detail_calls = 1
        /\ response.doctors = <<>>
        /\ "doctors" \notin response.fields

-----------------------------------------------------------------------------
(* C7 *)

\* C7: when the place search succeeds with zero candidates, the request
\* ends with a success status and a response that carries the predicted
\* disease, the specialist, doctors = [], map_points = [] and an explicit
\* empty-results indicator; no detail fetch is issued.
C7_EmptyResultsIsSuccess ==
    (pc = "done" /\ Serving /\ search_calls = 1 /\ failure.stage = "none"
                 /\ places_result = <<>>) =>
        /\ Success(response)
        /\ response.predicted_disease = prediction
        /\ response.specialist = specialist
        /\ response.doctors = <<>>
        /\ response.map_points = <<>>
        /\ "no_results" \in response.fields
        /\ detail_calls = 0

-----------------------------------------------------------------------------
(* C8 *)

\* C8: the resolved specialist is the map's value when the predicted label is
\* a key of the static map ("Migraine" gives "Neurologist", "Fungal
\* infection" gives "Dermatologist") and "General Practitioner" for every
\* other label; resolution always yields a specialist, and the two
\* front-ends resolve every label alike.
C8_ResolveIsTotalLookup ==
    /\ Resolved =>
          /\ prediction \in MapKeys =>
                /\ specialist = specialty_map_web[prediction]
                /\ specialist = specialty_map_streamlit[prediction]
          /\ prediction \notin MapKeys => specialist = "General Practitioner"
          /\ prediction = "Migraine" => specialist = "Neurologist"
          /\ prediction = "Fungal infection" => specialist = "Dermatologist"
          /\ specialist # "None"
    /\ \A label \in MapKeys \cup Labels :
          resolve("web", label) = resolve("streamlit", label)

\* a request whose label is no key of the map, resolved to the fallback
C8_Witness ==
    /\ Resolved
    /\ prediction \notin MapKeys
    /\ specialist = "General Practitioner"

-----------------------------------------------------------------------------
(* C9 *)

\* C9: when the classifier fails, no place search and no detail fetch
\* follows; when the place search fails, no detail fetch follows; in both
\* cases the caller gets the error and no predicted disease, specialist or
\* doctor list.
C9_FatalErrorsShortCircuit ==
    (pc = "done" /\ Serving /\ failure.stage \in {"classifier", "search"}) =>
        /\ failure.stage = "classifier" => search_calls = 0
        /\ detail_calls = 0
        /\ IsError(response)
        /\ response.predicted_disease = "None"
        /\ response.specialist = "None"
        /\ response.doctors = <<>>
        /\ response.fields \cap
              {"predicted_disease", "specialist", "doctors", "no_results"} = {}

-----------------------------------------------------------------------------
(* C10 *)

\* loading the model failed, or the vocabulary is missing or empty
ResourceLoadFailed == ~model \/ symptoms = <<>>

\* C10: when the model or the vocabulary failed to load at startup, no
\* request invokes the classifier or the provider, and every request is
\* answered with an error.
C10_LoadFailureServesNothing ==
    ResourceLoadFailed =>
        /\ classifier_calls = 0
        /\ search_calls = 0
        /\ detail_calls = 0
        /\ pc = "done" => IsError(response)

====
